---------------------------- MODULE Spec2Model ----------------------------
(***************************************************************************)
(* Fraud Detection API (src/main.py, src/schemas.py): risk scoring of a    *)
(* transaction, the create-transaction handler with its two writes to the  *)
(* document store, and the two list handlers.                              *)
(*                                                                         *)
(* Conventions of the model                                                *)
(*   - a Python str is a sequence of one-character strings, so that        *)
(*     str.upper / str.lower are computed character by character;          *)
(*   - an Optional[T] value is a set with at most one element: None is {}  *)
(*     and a present value v is {v};                                       *)
(*   - a JSON request body is a function from the keys it carries to their *)
(*     values: an absent key is a key outside its DOMAIN;                  *)
(*   - amounts and scores are floats in the source whose values here are   *)
(*     whole numbers (every contribution of the scorer is a whole number). *)
(***************************************************************************)
EXTENDS Integers, Sequences, FiniteSets, TLC

\* Number of create-calls that may be in flight together.
NumCalls == 2

Calls == 1..NumCalls

-----------------------------------------------------------------------------
(* Optional values and strings *)

None == {}

Some(v) == {v}

Val(o) == CHOOSE v \in o : TRUE

\* Python truthiness of an Optional[str]: None and "" are falsy.
Truthy(o) == o # None /\ o # Some(<<>>)

Min(a, b) == IF a <= b THEN a ELSE b

Max(a, b) == IF a >= b THEN a ELSE b

Lowercase == <<"a","b","c","d","e","f","g","h","i","j","k","l","m",
               "n","o","p","q","r","s","t","u","v","w","x","y","z">>

Uppercase == <<"A","B","C","D","E","F","G","H","I","J","K","L","M",
               "N","O","P","Q","R","S","T","U","V","W","X","Y","Z">>

Letters == 1..Len(Lowercase)

upper_char(ch) ==
    IF \E i \in Letters : Lowercase[i] = ch
    THEN Uppercase[CHOOSE i \in Letters : Lowercase[i] = ch]
    ELSE ch

lower_char(ch) ==
    IF \E i \in Letters : Uppercase[i] = ch
    THEN Lowercase[CHOOSE i \in Letters : Uppercase[i] = ch]
    ELSE ch

\* str.upper()
upper(s) == [i \in 1..Len(s) |-> upper_char(s[i])]

\* str.lower()
lower(s) == [i \in 1..Len(s) |-> lower_char(s[i])]

-----------------------------------------------------------------------------
(* String literals of the source *)

RU == <<"R","U">>

NG == <<"N","G">>

UA == <<"U","A">>

BR == <<"B","R">>

CN == <<"C","N">>

US == <<"U","S">>

USD == <<"U","S","D">>

web == <<"w","e","b">>

card_not_present == <<"c","a","r","d","-","n","o","t","-","p","r","e","s","e","n","t">>

card == <<"c","a","r","d">>

mobile == <<"m","o","b","i","l","e">>

gambling == <<"g","a","m","b","l","i","n","g">>

crypto == <<"c","r","y","p","t","o">>

adult == <<"a","d","u","l","t">>

grocery == <<"g","r","o","c","e","r","y">>

unknown_merchant == <<"u","n","k","n","o","w","n"," ","m","e","r","c","h","a","n","t">>

-----------------------------------------------------------------------------
(* schemas.py: the Transaction model *)

\* Defaults of the optional fields of Transaction.
TransactionDefaults ==
    [transaction_id    |-> None,
     currency          |-> USD,
     merchant          |-> None,
     merchant_category |-> None,
     country           |-> Some(US),
     channel           |-> Some(card),
     timestamp         |-> None,
     device_id         |-> None,
     ip_address        |-> None,
     risk_score        |-> None,
     risk_level        |-> None,
     is_fraud          |-> Some(FALSE)]

TransactionFields == {"user_id", "amount"} \cup DOMAIN TransactionDefaults

\* Variant of TransactionAccepts: amount without its ge=0 constraint.
TransactionAcceptsAnyAmount(body) ==
    /\ "user_id" \in DOMAIN body
    /\ "amount" \in DOMAIN body
    /\ ("risk_score" \in DOMAIN body /\ body.risk_score # None)
          => (Val(body.risk_score) >= 0 /\ Val(body.risk_score) <= 100)

\* Field constraints: user_id and amount are required, amount has ge=0,
\* a supplied risk_score has ge=0 and le=100.
TransactionAccepts(body) ==
    /\ "user_id" \in DOMAIN body
    /\ "amount" \in DOMAIN body
    /\ body.amount >= 0
    /\ ("risk_score" \in DOMAIN body /\ body.risk_score # None)
          => (Val(body.risk_score) >= 0 /\ Val(body.risk_score) <= 100)

\* The validated model instance: supplied fields kept, absent ones defaulted.
Transaction(body) ==
    [f \in TransactionFields |->
        IF f \in DOMAIN body THEN body[f] ELSE TransactionDefaults[f]]

-----------------------------------------------------------------------------
(* main.py: the risk scorer and the level classifier *)

risky_countries == {RU, NG, UA, BR, CN}

risky_channels == {web, card_not_present}

high_risk_mcc == {gambling, crypto, adult}

\* Variant of amount_risk: the brackets tested with if instead of elif, so
\* that they add up.
amount_risk_cumulative(tx) ==
    (IF tx.amount >= 5000 THEN 50 ELSE 0)
        + (IF tx.amount >= 1000 THEN 25 ELSE 0)
        + (IF tx.amount >= 200 THEN 10 ELSE 0)

\* Lines 63-68: the amount bracket.
amount_risk(tx) ==
    IF tx.amount >= 5000 THEN 50
    ELSE IF tx.amount >= 1000 THEN 25
    ELSE IF tx.amount >= 200 THEN 10
    ELSE 0

\* Variant of country_risk: the country compared as given, without upper().
country_risk_case_sensitive(tx) ==
    IF Truthy(tx.country) /\ Val(tx.country) \in risky_countries
    THEN 15 ELSE 0

\* Lines 72-73.
country_risk(tx) ==
    IF Truthy(tx.country) /\ upper(Val(tx.country)) \in risky_countries
    THEN 15 ELSE 0

\* Lines 76-77.
channel_risk(tx) ==
    IF Truthy(tx.channel) /\ lower(Val(tx.channel)) \in risky_channels
    THEN 10 ELSE 0

\* Lines 81-82.
mcc_risk(tx) ==
    IF Truthy(tx.merchant_category)
       /\ lower(Val(tx.merchant_category)) \in high_risk_mcc
    THEN 10 ELSE 0

\* Lines 85-86.
missing_risk(tx) ==
    IF ~Truthy(tx.ip_address) \/ ~Truthy(tx.device_id) THEN 5 ELSE 0

\* The value of score when line 88 is reached.
risk_points(tx) ==
    amount_risk(tx) + country_risk(tx) + channel_risk(tx) + mcc_risk(tx)
        + missing_risk(tx)

compute_risk_score(tx) == Min(risk_points(tx), 100)

\* Variant of score_to_level: the thresholds compared with > instead of >=.
score_to_level_strict(score) ==
    IF score > 70 THEN "high"
    ELSE IF score > 40 THEN "medium"
    ELSE "low"

score_to_level(score) ==
    IF score >= 70 THEN "high"
    ELSE IF score >= 40 THEN "medium"
    ELSE "low"

\* Variant of is_high_risk: every level but "low" triggers an alert.
is_not_low_risk(level) == level # "low"

\* create_transaction, line 130: the alert trigger.
is_high_risk(level) == level = "high"

\* Variant of alert_tags: only None is skipped ("if t is not None").
alert_tags_keep_empty(payload) ==
    LET present == SelectSeq(<<payload.merchant_category, payload.channel,
                               payload.country>>, LAMBDA t : t # None)
    IN  [i \in 1..Len(present) |-> Val(present[i])]

\* create_transaction, line 137: the tags comprehension.
alert_tags(payload) ==
    LET present == SelectSeq(<<payload.merchant_category, payload.channel,
                               payload.country>>, Truthy)
    IN  [i \in 1..Len(present) |-> Val(present[i])]

\* create_transaction, lines 131-138: the Alert built for a high-risk call.
Alert(inserted_id, payload, score, level) ==
    [transaction_ref |-> inserted_id,
     user_id         |-> payload.user_id,
     reason          |-> <<"High-risk transaction: $", payload.amount,
                           payload.currency, " at ",
                           IF Truthy(payload.merchant) THEN Val(payload.merchant)
                           ELSE unknown_merchant>>,
     risk_score      |-> score,
     risk_level      |-> level,
     tags            |-> alert_tags(payload)]

\* create_transaction, lines 116-124: the document handed to the store.
transaction_data(payload, now, score, level) ==
    [[payload EXCEPT !.timestamp = IF @ = None THEN Some(now) ELSE @]
        EXCEPT !.risk_score = Some(score), !.risk_level = Some(level)]

\* list handlers, lines 145 and 158: the parameter's default, used when the
\* query string carries no limit.
limit_param(query) == IF query = None THEN Some(50) ELSE query

\* Variant of clamp_limit: the lower clamp at 0, min(max(0, limit or 50), 200).
clamp_limit_from_zero(limit) ==
    Min(Max(0, IF limit = None \/ limit = Some(0) THEN 50 ELSE Val(limit)), 200)

\* list handlers, lines 146 and 159: min(max(1, limit or 50), 200).
clamp_limit(limit) ==
    Min(Max(1, IF limit = None \/ limit = Some(0) THEN 50 ELSE Val(limit)), 200)

\* str(ObjectId): the storage identity as text (an opaque string).
str(oid) == ToString(oid)

\* datetime.isoformat(): an instant as text.
isoformat(instant) == "T" \o ToString(instant)

-----------------------------------------------------------------------------
(* State *)

VARIABLES
    calls,      \* per create-call: its position in create_transaction and locals
    db,         \* the document store: collection name -> documents, in store order
    next_oid,   \* the store's next fresh ObjectId
    clock,      \* the current UTC instant read by datetime.now
    history,    \* per create-call: its create_document invocations, in order,
                \* each with its outcome and, on success, the _id assigned
    listed      \* the response of the step just taken, when it is a list call

vars == <<calls, db, next_oid, clock, history, listed>>

Collections == {"transaction", "alert"}

\* No list response: the step just taken answered no list call.
NotListed == [kind |-> "none"]

IdleCall ==
    [pc          |-> "idle",
     body        |-> <<>>,
     payload     |-> <<>>,
     data        |-> <<>>,
     score       |-> 0,
     level       |-> "",
     inserted_id |-> "",
     response    |-> [outcome |-> "pending"]]

Init ==
    /\ calls = [c \in Calls |-> IdleCall]
    /\ db = [k \in Collections |-> <<>>]
    /\ next_oid = 1
    /\ clock = 1
    /\ history = [c \in Calls |-> <<>>]
    /\ listed = NotListed

-----------------------------------------------------------------------------
(* The document store (database.py) *)

\* create_document: the stored document is the given one under a fresh _id.
inserted_document(oid, document) == ("_id" :> oid) @@ document

\* get_documents(collection, {}, limit): up to limit documents, in store order.
get_documents(collection, limit) ==
    SubSeq(db[collection], 1, Min(limit, Len(db[collection])))

\* create_document succeeds for call c: the document is appended.
create_document(c, collection, document) ==
    /\ db' = [db EXCEPT ![collection] =
                 Append(@, inserted_document(next_oid, document))]
    /\ next_oid' = next_oid + 1
    /\ history' = [history EXCEPT ![c] =
                      Append(@, [collection |-> collection, ok |-> TRUE,
                                 oid |-> next_oid])]

\* create_document raises for call c: nothing is written.
create_document_raises(c, collection) ==
    /\ UNCHANGED <<db, next_oid>>
    /\ history' = [history EXCEPT ![c] =
                      Append(@, [collection |-> collection, ok |-> FALSE,
                                 oid |-> 0])]

-----------------------------------------------------------------------------
(* POST /api/transactions *)

OkResponse(inserted_id, score, level) ==
    [outcome |-> "ok", id |-> inserted_id, risk_score |-> score,
     risk_level |-> level]

ErrorResponse(kind) == [outcome |-> kind]

\* The request arrives: the body is validated against the schema and, when
\* accepted, lines 116-124 run (timestamp default, score, level). Calls are
\* numbered in their order of arrival.
create_transaction_begin(c, body) ==
    /\ calls[c].pc = "idle"
    /\ \A d \in Calls : d < c => calls[d].pc # "idle"
    /\ clock' = clock + 1
    /\ IF TransactionAccepts(body)
       THEN LET payload == Transaction(body)
                score   == compute_risk_score(payload)
                level   == score_to_level(score)
            IN  calls' = [calls EXCEPT ![c] =
                    [IdleCall EXCEPT
                        !.pc = "store_transaction",
                        !.body = body,
                        !.payload = payload,
                        !.data = transaction_data(payload, clock, score, level),
                        !.score = score,
                        !.level = level]]
       ELSE calls' = [calls EXCEPT ![c] =
                    [IdleCall EXCEPT
                        !.pc = "done",
                        !.body = body,
                        !.response = ErrorResponse("ValidationError")]]
    /\ listed' = NotListed
    /\ UNCHANGED <<db, next_oid, history>>

\* Line 127 succeeds; a call that is not high-risk returns at line 141.
store_transaction(c) ==
    /\ calls[c].pc = "store_transaction"
    /\ create_document(c, "transaction", calls[c].data)
    /\ LET inserted_id == str(next_oid)
       IN  calls' = [calls EXCEPT ![c] =
               IF is_high_risk(calls[c].level)
               THEN [@ EXCEPT !.pc = "store_alert",
                              !.inserted_id = inserted_id]
               ELSE [@ EXCEPT !.pc = "done",
                              !.inserted_id = inserted_id,
                              !.response = OkResponse(inserted_id,
                                                      calls[c].score,
                                                      calls[c].level)]]
    /\ listed' = NotListed
    /\ UNCHANGED clock

\* Line 127 raises: the exception leaves the handler.
store_transaction_fails(c) ==
    /\ calls[c].pc = "store_transaction"
    /\ create_document_raises(c, "transaction")
    /\ calls' = [calls EXCEPT ![c] =
           [@ EXCEPT !.pc = "done",
                     !.response = ErrorResponse("StorageError")]]
    /\ listed' = NotListed
    /\ UNCHANGED clock

\* Variant of store_alert: the alert refers to the store's latest _id instead
\* of the _id returned to this call.
store_alert_latest_id(c) ==
    /\ calls[c].pc = "store_alert"
    /\ create_document(c, "alert",
           Alert(str(next_oid - 1), calls[c].payload, calls[c].score,
                 calls[c].level))
    /\ calls' = [calls EXCEPT ![c] =
           [@ EXCEPT !.pc = "done",
                     !.response = OkResponse(calls[c].inserted_id,
                                             calls[c].score, calls[c].level)]]
    /\ listed' = NotListed
    /\ UNCHANGED clock

\* Lines 131-141 with line 139 succeeding.
store_alert(c) ==
    /\ calls[c].pc = "store_alert"
    /\ create_document(c, "alert",
           Alert(calls[c].inserted_id, calls[c].payload, calls[c].score,
                 calls[c].level))
    /\ calls' = [calls EXCEPT ![c] =
           [@ EXCEPT !.pc = "done",
                     !.response = OkResponse(calls[c].inserted_id,
                                             calls[c].score, calls[c].level)]]
    /\ listed' = NotListed
    /\ UNCHANGED clock

\* Variant of store_alert_fails: the exception is caught and the call returns
\* its success response.
store_alert_fails_silently(c) ==
    /\ calls[c].pc = "store_alert"
    /\ create_document_raises(c, "alert")
    /\ calls' = [calls EXCEPT ![c] =
           [@ EXCEPT !.pc = "done",
                     !.response = OkResponse(calls[c].inserted_id,
                                             calls[c].score, calls[c].level)]]
    /\ listed' = NotListed
    /\ UNCHANGED clock

\* Line 139 raises: the exception leaves the handler.
store_alert_fails(c) ==
    /\ calls[c].pc = "store_alert"
    /\ create_document_raises(c, "alert")
    /\ calls' = [calls EXCEPT ![c] =
           [@ EXCEPT !.pc = "done",
                     !.response = ErrorResponse("StorageError")]]
    /\ listed' = NotListed
    /\ UNCHANGED clock

-----------------------------------------------------------------------------
(* GET /api/transactions and GET /api/alerts *)

\* Lines 149-153: _id and timestamp rendered as text.
transaction_item(it) ==
    [k \in DOMAIN it |->
        IF k = "_id" THEN str(it[k])
        ELSE IF k = "timestamp" /\ it[k] # None THEN Some(isoformat(Val(it[k])))
        ELSE it[k]]

\* Lines 161-165: _id and created_at rendered as text.
alert_item(it) ==
    [k \in DOMAIN it |->
        IF k = "_id" THEN str(it[k])
        ELSE IF k = "created_at" THEN isoformat(it[k])
        ELSE it[k]]

list_transactions(query) ==
    /\ LET limit == clamp_limit(limit_param(query))
           items == get_documents("transaction", limit)
       IN  listed' = [kind  |-> "transaction",
                      query |-> query,
                      limit |-> limit,
                      items |-> [i \in 1..Len(items) |->
                                    transaction_item(items[i])]]
    /\ UNCHANGED <<calls, db, next_oid, clock, history>>

list_alerts(query) ==
    /\ LET limit == clamp_limit(limit_param(query))
           items == get_documents("alert", limit)
       IN  listed' = [kind  |-> "alert",
                      query |-> query,
                      limit |-> limit,
                      items |-> [i \in 1..Len(items) |-> alert_item(items[i])]]
    /\ UNCHANGED <<calls, db, next_oid, clock, history>>

-----------------------------------------------------------------------------
(* Inputs *)

u1 == <<"u","1">>

u2 == <<"u","2">>

d1 == <<"d","1">>

ip1 == <<"1",".","2",".","3",".","4">>

t1 == <<"t","1">>

\* amount=6000, RU, web, gambling, no device, no ip: score 90.
Scenario1 ==
    [user_id |-> u1, amount |-> 6000, country |-> Some(RU),
     channel |-> Some(web), merchant_category |-> Some(gambling),
     device_id |-> None, ip_address |-> None]

\* amount=150, US, card, device and ip present: score 0.
Scenario2 ==
    [user_id |-> u2, amount |-> 150, country |-> Some(US),
     channel |-> Some(card), merchant_category |-> None,
     device_id |-> Some(d1), ip_address |-> Some(ip1)]

\* amount=500, NG, card-not-present, adult, device and ip present: score 45.
Scenario4 ==
    [user_id |-> u1, amount |-> 500, country |-> Some(NG),
     channel |-> Some(card_not_present), merchant_category |-> Some(adult),
     device_id |-> Some(d1), ip_address |-> Some(ip1)]

\* 50 + 15 + 5 = 70: channel defaulted, empty category.
Boundary70 ==
    [user_id |-> u2, amount |-> 5000, country |-> Some(<<"c","n">>),
     merchant_category |-> Some(<<>>), transaction_id |-> Some(t1)]

\* 25 + 15 = 40: null channel.
Boundary40 ==
    [user_id |-> u2, amount |-> 1000, country |-> Some(UA),
     channel |-> None, device_id |-> Some(d1), ip_address |-> Some(ip1),
     transaction_id |-> Some(t1)]

\* Scenario1 with a negative amount.
NegativeAmount == [Scenario1 EXCEPT !.amount = -1]

\* Scenario1 without its user_id.
MissingUser ==
    [amount |-> 6000, country |-> Some(RU), channel |-> Some(web),
     merchant_category |-> Some(gambling), device_id |-> None,
     ip_address |-> None]

\* The request bodies of the service: a high-risk and a low-risk one, and one
\* on each level boundary (the two carry the same transaction_id).
Bodies == {Scenario1, Scenario2, Boundary70, Boundary40}

\* The request bodies of concurrent create-calls: those above, Scenario1 with
\* the transaction_id of the boundary bodies, Scenario1 with the derived
\* fields supplied (in range, and out of range), Scenario4, and the two bodies
\* the schema rejects.
CreateBodies ==
    Bodies \cup
    { Scenario1 @@ [transaction_id |-> Some(t1)],
      Scenario1 @@ [risk_score |-> Some(10), risk_level |-> Some(<<"l","o","w">>),
                    is_fraud |-> Some(TRUE)],
      Scenario1 @@ [risk_score |-> Some(150)],
      Scenario4,
      NegativeAmount,
      MissingUser }

\* One optional key of a body: absent, or present with one of the values.
Optionally(key, values) == {<<>>} \cup {key :> v : v \in values}

\* The request bodies of a single create-call: every combination of the
\* values below, which reach each amount bracket on both sides of its
\* threshold and each risky country, channel and category in some letter case.
WideBodies ==
    { [user_id |-> u1, amount |-> amount] @@ co @@ ch @@ mc @@ ip @@ dev :
        amount \in {0, 199, 200, 999, 1000, 4999, 5000, 6000},
        co  \in Optionally("country",
                   {None, Some(<<>>), Some(RU), Some(<<"n","g">>),
                    Some(<<"U","a">>), Some(<<"b","R">>), Some(CN), Some(web)}),
        ch  \in Optionally("channel",
                   {None, Some(<<>>), Some(web), Some(<<"W","E","B">>),
                    Some(<<"C","a","r","d","-","N","o","t","-","P","r","e","s","e","n","t">>),
                    Some(mobile), Some(RU)}),
        mc  \in Optionally("merchant_category",
                   {Some(<<>>), Some(gambling), Some(<<"C","r","y","p","t","o">>),
                    Some(<<"A","D","U","L","T">>), Some(grocery), Some(web)}),
        ip  \in Optionally("ip_address", {Some(<<>>), Some(ip1)}),
        dev \in Optionally("device_id", {None, Some(d1)}) }

\* The limit of a list request's query string: absent, or a number.
Queries == {None} \cup {Some(n) : n \in {-3, 0, 2, 200, 201}}

-----------------------------------------------------------------------------
(* The service: concurrent create-calls and list calls *)


Next ==
    \/ \E c \in Calls :
          /\ calls[c].pc = "idle"
          /\ \E body \in Bodies : create_transaction_begin(c, body)
    \/ \E c \in Calls : store_transaction(c)
    \/ \E c \in Calls : store_transaction_fails(c)
    \/ \E c \in Calls : store_alert(c)
    \/ \E c \in Calls : store_alert_fails(c)
    \/ \E query \in Queries : list_transactions(query)
    \/ \E query \in Queries : list_alerts(query)

Spec == Init /\ [][Next]_vars

-----------------------------------------------------------------------------
(* Concurrent create-calls alone, over more request bodies *)

NextCreate ==
    \/ \E c \in Calls :
          /\ calls[c].pc = "idle"
          /\ \E body \in CreateBodies : create_transaction_begin(c, body)
    \/ \E c \in Calls : store_transaction(c)
    \/ \E c \in Calls : store_transaction_fails(c)
    \/ \E c \in Calls : store_alert(c)
    \/ \E c \in Calls : store_alert_fails(c)

SpecCreate == Init /\ [][NextCreate]_vars

-----------------------------------------------------------------------------
(* A single create-call over the wide range of request bodies *)

NextSingle ==
    \/ /\ calls[1].pc = "idle"
       /\ \E body \in WideBodies : create_transaction_begin(1, body)
    \/ store_transaction(1)
    \/ store_transaction_fails(1)
    \/ store_alert(1)
    \/ store_alert_fails(1)

SpecSingle == Init /\ [][NextSingle]_vars

-----------------------------------------------------------------------------
(* Vocabulary of the properties *)

\* Call c has passed validation and computed its score and level.
Scored(c) ==
    \/ calls[c].pc \in {"store_transaction", "store_alert"}
    \/ calls[c].pc = "done" /\ calls[c].response.outcome # "ValidationError"

\* Call c has returned a success response.
ReturnedOk(c) == calls[c].pc = "done" /\ calls[c].response.outcome = "ok"

\* Two strings are equal up to the case of their letters.
same_ignoring_case(a, b) ==
    /\ Len(a) = Len(b)
    /\ \A i \in 1..Len(a) :
          \/ a[i] = b[i]
          \/ \E k \in Letters : {a[i], b[i]} = {Lowercase[k], Uppercase[k]}

\* An optional string is, up to case, one of the names.
named_in(o, names) ==
    o # None /\ \E n \in names : same_ignoring_case(Val(o), n)

absent_or_empty(o) == o = None \/ Val(o) = <<>>

\* The contributions as the scoring rules state them.
stated_amount(tx) ==
    CASE tx.amount >= 5000                      -> 50
      [] tx.amount >= 1000 /\ tx.amount < 5000  -> 25
      [] tx.amount >= 200 /\ tx.amount < 1000   -> 10
      [] tx.amount < 200                        -> 0

stated_country(tx) == IF named_in(tx.country, {RU, NG, UA, BR, CN}) THEN 15 ELSE 0

stated_channel(tx) ==
    IF named_in(tx.channel, {web, card_not_present}) THEN 10 ELSE 0

stated_category(tx) ==
    IF named_in(tx.merchant_category, {gambling, crypto, adult}) THEN 10 ELSE 0

stated_identity(tx) ==
    IF absent_or_empty(tx.ip_address) \/ absent_or_empty(tx.device_id)
    THEN 5 ELSE 0

stated_other(tx) ==
    stated_country(tx) + stated_channel(tx) + stated_category(tx)
        + stated_identity(tx)

\* The create-call that wrote the document with this _id.
writer(oid) ==
    CHOOSE c \in Calls :
        \E k \in DOMAIN history[c] : history[c][k].ok /\ history[c][k].oid = oid

-----------------------------------------------------------------------------
(* Properties of the scorer, checked under SpecSingle *)

\* C2: the score of every validated transaction is min(100, A + C + H + M + I)
\* with A the one amount bracket that applies, C = 15 iff the country is,
\* up to case, a risky one, H = 10 iff the channel is, up to case, web or
\* card-not-present, M = 10 iff the category is, up to case, gambling, crypto
\* or adult, I = 5 iff the ip address or the device id is absent or empty;
\* the score lies in [0, 100].
C2_ScoreIsStatedSum ==
    \A c \in Calls :
        Scored(c) =>
            LET tx == calls[c].payload
            IN  /\ calls[c].score =
                       Min(100, stated_amount(tx) + stated_country(tx)
                                + stated_channel(tx) + stated_category(tx)
                                + stated_identity(tx))
                /\ calls[c].score >= 0
                /\ calls[c].score <= 100

\* A call has scored 90 from a body whose country and channel are risky only
\* up to case.
C2_Witness ==
    \E c \in Calls :
        /\ ReturnedOk(c)
        /\ calls[c].score = 90
        /\ calls[c].payload.country = Some(<<"n","g">>)
        /\ calls[c].payload.channel = Some(<<"W","E","B">>)

\* C10: the contributions never sum to more than 90, so the clamp leaves
\* every score as it is; a call with amount < 5000 scores at most 65, is never
\* "high" and writes no alert; a call with amount >= 5000 is "high" iff its
\* other contributions sum to at least 20.
C10_NoAlertBelow5000 ==
    \A c \in Calls :
        Scored(c) =>
            LET tx == calls[c].payload
            IN  /\ risk_points(tx) <= 90
                /\ calls[c].score = risk_points(tx)
                /\ tx.amount < 5000 =>
                      /\ calls[c].score <= 65
                      /\ calls[c].level # "high"
                      /\ \A k \in DOMAIN history[c] :
                            history[c][k].collection # "alert"
                      /\ \A j \in DOMAIN db.alert : writer(db.alert[j]._id) # c
                /\ tx.amount >= 5000 =>
                      (calls[c].level = "high" <=> stated_other(tx) >= 20)

\* A call with amount 4999 has returned with the highest score below the
\* bracket, 65, and there is no alert.
C10_Witness ==
    \E c \in Calls :
        /\ ReturnedOk(c)
        /\ calls[c].payload.amount = 4999
        /\ calls[c].score = 65
        /\ db.alert = <<>>

\* C9: the tags of every persisted alert are the merchant_category, channel
\* and country of its call's request, in that order, without the None and the
\* empty ones: no tag is empty, the order is kept, repeated values stay.
C9_TagsAreNonEmptyFieldsInOrder ==
    \A j \in DOMAIN db.alert :
        LET tags   == db.alert[j].tags
            tx     == calls[writer(db.alert[j]._id)].payload
            fields == <<tx.merchant_category, tx.channel, tx.country>>
            kept   == {i \in 1..3 : ~absent_or_empty(fields[i])}
            rank(i) == Cardinality({k \in kept : k <= i})
        IN  /\ Len(tags) = Cardinality(kept)
            /\ \A i \in kept : tags[rank(i)] = Val(fields[i])
            /\ \A i \in 1..Len(tags) : tags[i] # <<>>

\* An alert is persisted whose request has an empty category and a null
\* channel: the country is its only tag.
C9_Witness ==
    \E j \in DOMAIN db.alert :
        LET tx == calls[writer(db.alert[j]._id)].payload
        IN  /\ tx.merchant_category = Some(<<>>)
            /\ tx.channel = None
            /\ db.alert[j].tags = << <<"b","R">> >>

-----------------------------------------------------------------------------
(* Properties of the service, checked under Spec *)

\* The successful create_document invocations of call c on a collection.
writes(c, collection) ==
    {k \in DOMAIN history[c] :
        history[c][k].ok /\ history[c][k].collection = collection}

\* The alerts that refer to the transaction document t.
alerts_of(t) ==
    {j \in DOMAIN db.alert : db.alert[j].transaction_ref = str(t._id)}

\* Every document of a collection was written by exactly one create_document
\* invocation of a create-call.
WrittenByCreateCalls(collection) ==
    \A i \in DOMAIN db[collection] :
        Cardinality({<<c, k>> \in Calls \X (1..2) :
                        /\ k \in writes(c, collection)
                        /\ history[c][k].oid = db[collection][i]._id}) = 1

\* C1: once every create-call that started has returned without a storage
\* error, each persisted transaction has exactly one alert referring to it
\* when its level is "high" and none when it is "medium" or "low"; and every
\* alert, in every state, was written by the alert write of a create-call
\* whose level is "high" (no other operation produces one).
C1_OneAlertIffHigh ==
    /\ (\A c \in Calls :
            calls[c].pc = "idle"
            \/ (calls[c].pc = "done"
                /\ calls[c].response.outcome # "StorageError"))
       => \A i \in DOMAIN db.transaction :
              LET t == db.transaction[i]
              IN  Cardinality(alerts_of(t)) =
                      IF t.risk_level = Some("high") THEN 1 ELSE 0
    /\ WrittenByCreateCalls("alert")
    /\ \A j \in DOMAIN db.alert :
          calls[writer(db.alert[j]._id)].level = "high"

\* All calls have returned successfully, a list call has just been answered,
\* and the store holds a "high" transaction with its alert and a "medium" one
\* without.
C1_Witness ==
    /\ \A c \in Calls : ReturnedOk(c)
    /\ listed.kind = "alert"
    /\ \E i, k \in DOMAIN db.transaction :
          /\ db.transaction[i].risk_level = Some("high")
          /\ Cardinality(alerts_of(db.transaction[i])) = 1
          /\ db.transaction[k].risk_level = Some("medium")
          /\ alerts_of(db.transaction[k]) = {}

\* The level the thresholds assign to a score.
stated_level(score) ==
    CASE score >= 70                -> "high"
      [] score >= 40 /\ score < 70  -> "medium"
      [] score < 40                 -> "low"

\* C7 (state part): every persisted transaction and every success response
\* carries a score in [0, 100] and the level of that score: "high" iff
\* score >= 70, "medium" iff 40 <= score < 70, "low" iff score < 40.
LevelMatchesScore ==
    /\ \A i \in DOMAIN db.transaction :
          LET t == db.transaction[i]
              score == Val(t.risk_score)
          IN  /\ t.risk_score # None /\ t.risk_level # None
              /\ score >= 0 /\ score <= 100
              /\ Val(t.risk_level) = "high" <=> score >= 70
              /\ Val(t.risk_level) = "medium" <=> (score >= 40 /\ score < 70)
              /\ Val(t.risk_level) = "low" <=> score < 40
    /\ \A c \in Calls :
          ReturnedOk(c) =>
              /\ calls[c].response.risk_level
                     = stated_level(calls[c].response.risk_score)
              /\ calls[c].response.risk_score >= 0
              /\ calls[c].response.risk_score <= 100

\* C7 (step part): no step changes a transaction document already persisted.
PersistedTransactionsKept ==
    /\ Len(db'.transaction) >= Len(db.transaction)
    /\ \A i \in DOMAIN db.transaction : db'.transaction[i] = db.transaction[i]

\* C7: in every reachable state each persisted transaction and each create
\* response carries the level that classifies its own score, and no later
\* operation changes a persisted transaction.
C7_LevelConsistent == []LevelMatchesScore /\ [][PersistedTransactionsKept]_vars

\* Transactions are persisted on both boundaries: score 70 with level "high"
\* and score 40 with level "medium"; a list call has just been answered.
C7_Witness ==
    /\ listed.kind = "transaction"
    /\ \E i, k \in DOMAIN db.transaction :
          /\ db.transaction[i].risk_score = Some(70)
          /\ db.transaction[i].risk_level = Some("high")
          /\ db.transaction[k].risk_score = Some(40)
          /\ db.transaction[k].risk_level = Some("medium")

\* The limit the list handlers are stated to pass to the store.
stated_limit(query) ==
    IF query = None \/ Val(query) <= 0 THEN 50
    ELSE IF Val(query) > 200 THEN 200
    ELSE Val(query)

\* The limit the list handlers pass to the store.
actual_limit(query) ==
    IF query = None \/ Val(query) = 0 THEN 50
    ELSE IF Val(query) < 0 THEN 1
    ELSE IF Val(query) > 200 THEN 200
    ELSE Val(query)

-----------------------------------------------------------------------------
(* Properties of concurrent create-calls, checked under SpecCreate *)

DerivedFields == {"risk_score", "risk_level", "is_fraud"}

\* Two bodies differ at most in the derived fields they supply.
same_but_derived(b1, b2) ==
    /\ DOMAIN b1 \ DerivedFields = DOMAIN b2 \ DerivedFields
    /\ \A k \in DOMAIN b1 \ DerivedFields : b1[k] = b2[k]

\* The transaction document persisted by call c.
transaction_of(c) ==
    CHOOSE t \in {db.transaction[i] : i \in DOMAIN db.transaction} :
        str(t._id) = calls[c].inserted_id

\* C4 as stated: two create requests that differ only in the supplied
\* risk_score, risk_level and is_fraud have the same outcome, return the same
\* score and level, and persist documents with identical risk_score,
\* risk_level and is_fraud (store failures apart).
C4_DerivedFieldsIgnored ==
    \A c1, c2 \in Calls :
        (/\ calls[c1].pc = "done" /\ calls[c2].pc = "done"
         /\ calls[c1].response.outcome # "StorageError"
         /\ calls[c2].response.outcome # "StorageError"
         /\ same_but_derived(calls[c1].body, calls[c2].body))
        => /\ calls[c1].response.outcome = calls[c2].response.outcome
           /\ calls[c1].response.outcome = "ok" =>
                 /\ calls[c1].response.risk_score = calls[c2].response.risk_score
                 /\ calls[c1].response.risk_level = calls[c2].response.risk_level
                 /\ transaction_of(c1).risk_score = transaction_of(c2).risk_score
                 /\ transaction_of(c1).risk_level = transaction_of(c2).risk_level
                 /\ transaction_of(c1).is_fraud = transaction_of(c2).is_fraud

\* The body has a negative amount or no user_id.
rejected_by_claim(body) ==
    \/ "user_id" \notin DOMAIN body
    \/ "amount" \in DOMAIN body /\ body.amount < 0

\* C5: a create-call whose body has a negative amount or no user_id ends with
\* a ValidationError and invokes create_document on neither collection; every
\* document of either collection is the write of another call.
C5_InvalidWritesNothing ==
    /\ \A c \in Calls :
          (calls[c].pc # "idle" /\ rejected_by_claim(calls[c].body)) =>
              /\ calls[c].pc = "done"
              /\ calls[c].response.outcome = "ValidationError"
              /\ history[c] = <<>>
    /\ WrittenByCreateCalls("transaction")
    /\ WrittenByCreateCalls("alert")

\* One call with a negative amount has been rejected while the store holds
\* the transaction and the alert of another call.
C5_Witness ==
    \E c \in Calls :
        /\ calls[c].body = NegativeAmount
        /\ calls[c].response.outcome = "ValidationError"
        /\ Len(db.transaction) = 1
        /\ Len(db.alert) = 1

\* The create_document invocations of call c on a collection.
attempts(c, collection) ==
    {k \in DOMAIN history[c] : history[c][k].collection = collection}

\* C6: a call whose transaction insert succeeded and whose alert insert failed
\* (its level is "high") ends with a StorageError, its transaction stays
\* persisted, no alert refers to it, and neither write is attempted twice; a
\* call whose transaction insert failed ends with a StorageError, attempts no
\* alert insert and persists nothing.
C6_FailedWriteSurfaced ==
    \A c \in Calls :
        LET h == history[c]
        IN  /\ Cardinality(attempts(c, "transaction")) <= 1
            /\ Cardinality(attempts(c, "alert")) <= 1
            /\ (\E k \in attempts(c, "alert") : ~h[k].ok) =>
                  /\ calls[c].pc = "done"
                  /\ calls[c].response.outcome = "StorageError"
                  /\ calls[c].level = "high"
                  /\ Len(h) = 2
                  /\ h[1].collection = "transaction" /\ h[1].ok
                  /\ \E i \in DOMAIN db.transaction :
                        /\ db.transaction[i]._id = h[1].oid
                        /\ db.transaction[i] =
                               inserted_document(h[1].oid, calls[c].data)
                        /\ alerts_of(db.transaction[i]) = {}
            /\ (\E k \in attempts(c, "transaction") : ~h[k].ok) =>
                  /\ calls[c].pc = "done"
                  /\ calls[c].response.outcome = "StorageError"
                  /\ Len(h) = 1
                  /\ \A i \in DOMAIN db.transaction :
                        writer(db.transaction[i]._id) # c
                  /\ \A j \in DOMAIN db.alert : writer(db.alert[j]._id) # c

\* One call has failed on its alert insert after its transaction insert, and
\* another has failed on its transaction insert.
C6_Witness ==
    \E c, d \in Calls :
        /\ Len(history[c]) = 2 /\ history[c][1].ok /\ ~history[c][2].ok
        /\ Len(history[d]) = 1 /\ ~history[d][1].ok
        /\ Len(db.transaction) = 1

\* The elements of a sequence with their numbers of occurrences.
bag_of(seq) ==
    [x \in {seq[i] : i \in DOMAIN seq} |->
        Cardinality({i \in DOMAIN seq : seq[i] = x})]

\* A document without its storage identity.
without_id(doc) == [k \in DOMAIN doc \ {"_id"} |-> doc[k]]

\* The collections of a store up to storage identities: each transaction
\* without its _id, each alert without its _id and with the transaction it
\* refers to in place of the reference.
up_to_ids(store) ==
    LET referred(ref) ==
            CHOOSE t \in {store.transaction[i] : i \in DOMAIN store.transaction} :
                str(t._id) = ref
    IN  [transaction |->
            bag_of([i \in DOMAIN store.transaction |->
                       without_id(store.transaction[i])]),
         alert |->
            bag_of([j \in DOMAIN store.alert |->
                       [without_id(store.alert[j]) EXCEPT
                           !.transaction_ref = without_id(referred(@))]])]

\* The store after the calls 1..n run one after the other, each from its
\* arrival (at the instant it arrived in this behaviour) to its return, every
\* write succeeding: call k writes its transaction under _id 2k-1 and, when
\* its level is "high", its alert under _id 2k.
RECURSIVE serial_store(_)
serial_store(n) ==
    IF n = 0 THEN [transaction |-> <<>>, alert |-> <<>>]
    ELSE LET before  == serial_store(n - 1)
             payload == Transaction(calls[n].body)
             now     == Val(calls[n].data.timestamp)
             score   == compute_risk_score(payload)
             level   == score_to_level(score)
             oid     == 2 * n - 1
         IN  [transaction |->
                 Append(before.transaction,
                        inserted_document(oid,
                            transaction_data(payload, now, score, level))),
              alert |->
                 IF is_high_risk(level)
                 THEN Append(before.alert,
                             inserted_document(oid + 1,
                                 Alert(str(oid), payload, score, level)))
                 ELSE before.alert]

\* C8: when all the concurrent create-calls have returned successfully,
\* whatever the interleaving of their inserts, each call has exactly one
\* transaction document, carrying the score and level computed from its own
\* request; every alert carries the transaction_ref, user_id, risk_score and
\* risk_level of the transaction inserted by the call that wrote the alert;
\* and the collections are, as multisets and up to storage identities, those
\* of the calls run one after the other.
C8_InterleavingsAreSerial ==
    (\A c \in Calls : ReturnedOk(c)) =>
        /\ Len(db.transaction) = NumCalls
        /\ \A c \in Calls :
              LET mine == {i \in DOMAIN db.transaction :
                              str(db.transaction[i]._id) = calls[c].inserted_id}
                  own  == Transaction(calls[c].body)
              IN  /\ Cardinality(mine) = 1
                  /\ Cardinality(writes(c, "transaction")) = 1
                  /\ \A i \in mine :
                        /\ db.transaction[i]._id
                               = history[c][1].oid
                        /\ db.transaction[i].risk_score
                               = Some(compute_risk_score(own))
                        /\ db.transaction[i].risk_level
                               = Some(score_to_level(compute_risk_score(own)))
                        /\ db.transaction[i].user_id = own.user_id
                        /\ db.transaction[i].amount = own.amount
        /\ WrittenByCreateCalls("alert")
        /\ \A j \in DOMAIN db.alert :
              LET a == db.alert[j]
                  t == transaction_of(writer(a._id))
              IN  /\ a.transaction_ref = str(t._id)
                  /\ a.user_id = t.user_id
                  /\ Some(a.risk_score) = t.risk_score
                  /\ Some(a.risk_level) = t.risk_level
        /\ up_to_ids(db) = up_to_ids(serial_store(NumCalls))

\* All calls have returned successfully, two of them with the same
\* transaction_id and different users, and the second alert stored belongs to
\* the first transaction stored: the inserts of two calls interleaved.
C8_Witness ==
    /\ \A c \in Calls : ReturnedOk(c)
    /\ Len(db.alert) >= 2
    /\ db.alert[2].transaction_ref = str(db.transaction[1]._id)
    /\ db.alert[1].transaction_ref = str(db.transaction[2]._id)
    /\ db.transaction[1].transaction_id = Some(t1)
    /\ db.transaction[2].transaction_id = Some(t1)
    /\ db.transaction[1].user_id # db.transaction[2].user_id

=============================================================================
